---- MODULE Spec2Model ----
(***************************************************************************)
(* A model of bot.py: an RSI alert bot.  main() loads the dedup state,     *)
(* then in every poll cycle evaluates each configured symbol with          *)
(* check_symbol() (fetch candles, keep the closed ones, compute the        *)
(* current and the previous RSI, alert on a threshold crossing that was    *)
(* not yet alerted for the last close time) and finally saves the state.   *)
(*                                                                         *)
(* Time is counted in candles: candle k closes at time k.  Prices are      *)
(* small integers.  Python floats are modelled as exact rationals          *)
(* <<numerator, denominator>>; rounding of binary floating point is not    *)
(* modelled.                                                               *)
(***************************************************************************)
EXTENDS Integers, Sequences, FiniteSets, TLC

(* ------------------------------ bounds -------------------------------- *)

\* The clock stops advancing at MaxTime.
MaxTime == 5
\* The clock value of the initial states (candles 1..StartTime are closed).
StartTime == 3
\* Close prices are drawn from 1..MaxPrice.
MaxPrice == 2
\* The cycle counter of one run of main() saturates at MaxCycles.
MaxCycles == 2

Prices == 1..MaxPrice
\* The price histories of the initial states: the price went back and forth
\* between 1 and 2.
InitHistories == {h \in [1..StartTime -> {1, 2}] : \A i \in 1..(StartTime - 1) : h[i] # h[i + 1]}

(* --------------------------- configuration ---------------------------- *)

\* parse_symbols(env("SYMBOLS", ...)): the configured symbol list.
Symbols == <<"BTCUSDT", "ETHUSDT">>
\* RSI_PERIOD, a positive integer.
Period == 2
\* fetch_klines(symbol, interval, limit=200)
Limit == 200
\* The (RSI_OVERSOLD, RSI_OVERBOUGHT) pairs the environment may configure:
\* values the RSI of the modelled price histories reaches exactly, so that
\* both sides of each comparison with a threshold occur.
Thresholds == {<<25, 75>>}

SymbolSet == {Symbols[i] : i \in DOMAIN Symbols}
Dirs == {"OVERSOLD", "OVERBOUGHT"}

\* Python's None as dict.get returns it for an absent dedup field: a value no
\* close time equals (close times are >= 1).
None == 0
\* Python's None as compute_rsi returns it: no rational has denominator 0.
Undefined == <<0, 0>>
\* The empty dict {}.
EmptyDict == [x \in {} |-> None]

(* ------------------------ rational arithmetic ------------------------- *)

Abs(x) == IF x < 0 THEN -x ELSE x

Max(a, b) == IF a >= b THEN a ELSE b

RECURSIVE GCD(_, _)
GCD(a, b) == IF b = 0 THEN a ELSE GCD(b, a % b)

\* The rational r (a pair with a positive denominator) in lowest terms.
Rat(r) == <<r[1] \div GCD(Abs(r[1]), r[2]), r[2] \div GCD(Abs(r[1]), r[2])>>

\* Arithmetic on pairs with positive denominators (a divisor is positive).
FromInt(n) == <<n, 1>>
RAdd(a, b) == <<a[1] * b[2] + b[1] * a[2], a[2] * b[2]>>
RSub(a, b) == <<a[1] * b[2] - b[1] * a[2], a[2] * b[2]>>
RMul(a, b) == <<a[1] * b[1], a[2] * b[2]>>
RDiv(a, b) == <<a[1] * b[2], a[2] * b[1]>>
RLt(a, b) == a[1] * b[2] < b[1] * a[2]
RLe(a, b) == a[1] * b[2] <= b[1] * a[2]
RIsZero(a) == a[1] = 0

(* --------------------------- compute_rsi ------------------------------ *)

RECURSIVE SumTo(_, _)
\* sum(xs[:n]); the slice ends where the list ends.
SumTo(xs, n) ==
    IF n = 0 THEN 0
    ELSE SumTo(xs, n - 1) + (IF n \in DOMAIN xs THEN xs[n] ELSE 0)

RECURSIVE Smooth(_, _, _, _)
\* for i in range(period, len(deltas)): avg = (avg * (period - 1) + xs[i]) / period
\* (i is the 1-based index of the next element to fold in)
Smooth(avg, xs, i, period) ==
    IF i > Len(xs) THEN avg
    ELSE Smooth(RDiv(RAdd(RMul(avg, FromInt(period - 1)), FromInt(xs[i])),
                     FromInt(period)),
                xs, i + 1, period)

\* A variant of TooFewCloses that accepts period closes.
TooFewCloses_OffByOne(closes, period) == Len(closes) < period

\* len(closes) < period + 1
TooFewCloses(closes, period) == Len(closes) < period + 1

\* A variant of NoLossRsi that calls a market without losses neutral.
NoLossRsi_Neutral == FromInt(50)

\* return 100.0
NoLossRsi == FromInt(100)

compute_rsi(closes, period) ==
    IF TooFewCloses(closes, period) THEN Undefined
    ELSE
      LET deltas == [i \in 1..(Len(closes) - 1) |-> closes[i + 1] - closes[i]]
          gains == [i \in DOMAIN deltas |-> Max(deltas[i], 0)]
          losses == [i \in DOMAIN deltas |-> Max(-deltas[i], 0)]
          avg_gain == Smooth(RDiv(FromInt(SumTo(gains, period)), FromInt(period)),
                             gains, period + 1, period)
          avg_loss == Smooth(RDiv(FromInt(SumTo(losses, period)), FromInt(period)),
                             losses, period + 1, period)
      IN  IF RIsZero(avg_loss) THEN NoLossRsi
          ELSE LET rs == RDiv(avg_gain, avg_loss)
               IN  Rat(RSub(FromInt(100), RDiv(FromInt(100), RAdd(FromInt(1), rs))))

(* ------------------------------ state --------------------------------- *)

VARIABLES
    now,        \* the clock: candles 1..now are closed, candle now+1 is in progress
    market,     \* market[s][k]: the final close price of candle k of symbol s
    cfg,        \* the configuration main() resolves: [oversold, overbought]
    pc,         \* where main() is: "stopped", "cycle", "save", "sleep", "done"
    loop,       \* main(loop=...): FALSE under --once
    idx,        \* the position of "for symbol in symbols"
    state,      \* the in-memory dedup mapping: symbol -> {field -> close time}
    file,       \* the content of STATE_FILE
    sent,       \* history: the (symbol, direction, close time) whose alert some
                \* channel delivered, as far as the close time is that of the last
                \* closed candle (the clock only advances: an older candle is never
                \* evaluated again)
    resent,     \* history: those of sent whose alert was delivered again
    ev,         \* history: the evaluation the last step made, if it was a check_symbol
    cycles,     \* history: poll cycles begun in this run of main() (saturating)
    saves,      \* history: calls of save_state in the current cycle
    attempted,  \* history: symbols check_symbol was called for in the current cycle
    failed,     \* history: the current cycle raised an exception
    \* load_state and save_state called on their own
    store_file, \* the content of STATE_FILE
    store_arg,  \* the mapping save_state is called with
    store_last, \* the outcome of the last save_state call, "none" before it
    store_ret,  \* what load_state returned, NotCalled before the call
    \* compute_rsi and check_symbol called on their own
    arg_closes, \* the close prices, oldest first
    arg_period, \* the period
    arg_cfg,    \* the thresholds (oversold, overbought)
    ret         \* what the call returned, NotCalled before the call

main_vars == <<now, market, cfg, pc, loop, idx, state, file, sent, resent, ev,
               cycles, saves, attempted, failed>>
store_vars == <<store_file, store_arg, store_last, store_ret>>
fn_vars == <<arg_closes, arg_period, arg_cfg, ret>>
vars == <<main_vars, store_vars, fn_vars>>

NotCalled == [kind |-> "not_called"]

NoEval == [kind |-> "none"]

\* What the history keeps of the result of a check_symbol call.
Outcome(r) ==
    IF r.evaluated
    THEN [f \in {"evaluated", "closes", "times", "previous_rsi", "current_rsi",
                 "last_close_time", "alerts", "raised", "state", "channels",
                 "delivered"} |-> r[f]]
    ELSE [f \in {"evaluated", "closes", "times", "alerts", "raised", "state"} |-> r[f]]

(* --------------------------- state store ------------------------------ *)

\* STATE_FILE does not exist.
MissingFile == [kind |-> "missing"]
\* STATE_FILE exists and open(STATE_FILE, "r") raises (no read permission).
UnreadableFile == [kind |-> "unreadable"]
\* A file that json.load rejects (an empty or partially written file).
CorruptFile == [kind |-> "corrupt"]

\* A variant of Digits that writes the last digit only.
Digits_LastOnly(n) == <<n % 10>>

\* The decimal digits json.dump writes for the integer n >= 0.
RECURSIVE Digits(_)
Digits(n) == IF n < 10 THEN <<n>> ELSE Append(Digits(n \div 10), n % 10)

\* The integer json.load reads from decimal digits.
RECURSIVE Number(_)
Number(ds) ==
    IF Len(ds) = 1 THEN ds[1]
    ELSE 10 * Number(SubSeq(ds, 1, Len(ds) - 1)) + ds[Len(ds)]

\* JSON documents: an object [t |-> "obj", members |-> name -> document], a
\* number [t |-> "num", digits |-> ...], an array and null.
JsonArray == [t |-> "arr"]
JsonNull == [t |-> "null"]
\* The Python values json.load makes of an array and of null: a list and None
\* (neither is a dict).
PyList == [py |-> "list"]
PyNone == [py |-> "None"]

\* json.dump(state, f, indent=2): the text of the mapping symbol -> field ->
\* close time.
json_dump(m) ==
    [t |-> "obj",
     members |-> [s \in DOMAIN m |->
        [t |-> "obj",
         members |-> [fld \in DOMAIN m[s] |-> [t |-> "num", digits |-> Digits(m[s][fld])]]]]]

\* json.load(f): the Python value of a JSON document.
RECURSIVE json_load(_)
json_load(doc) ==
    IF doc.t = "obj" THEN [k \in DOMAIN doc.members |-> json_load(doc.members[k])]
    ELSE IF doc.t = "num" THEN Number(doc.digits)
    ELSE IF doc.t = "arr" THEN PyList
    ELSE PyNone

\* A file holding the text of a JSON document.
JsonFile(doc) == [kind |-> "json", doc |-> doc]

load_state(f) ==
    IF f.kind = "missing" THEN EmptyDict
    ELSE IF f.kind \in {"unreadable", "corrupt"} THEN EmptyDict
    ELSE json_load(f.doc)

\* The outcomes of save_state: "ok"; "open_raise": open() raises and the file is
\* untouched; "write_raise": open(.., "w") has truncated the file and the write
\* raises; "crash": the process dies after the truncation.
SaveOutcomes == {"ok", "open_raise", "write_raise", "crash"}

\* A variant of save_state that writes the file only when there is none yet.
save_state_OnlyNew(st, f, outcome) ==
    IF outcome = "ok" /\ f.kind = "missing" THEN JsonFile(json_dump(st))
    ELSE IF outcome \in {"ok", "open_raise"} THEN f
    ELSE CorruptFile

save_state(st, f, outcome) ==
    IF outcome = "ok" THEN JsonFile(json_dump(st))
    ELSE IF outcome = "open_raise" THEN f
    ELSE CorruptFile

(* ---------------------------- data fetch ------------------------------ *)

\* fetch_klines at clock t: the last Limit candles of the symbol, the last of
\* them still in progress with the price p it has at the moment of the fetch.
fetch_klines(hist, t, p) ==
    LET all == [k \in 1..(t + 1) |->
                  [close_time |-> k, close |-> IF k <= t THEN hist[k] ELSE p]]
    IN  IF Len(all) <= Limit THEN all
        ELSE SubSeq(all, Len(all) - Limit + 1, Len(all))

\* A candle is kept when its close time is <= the clock read at extraction.
IsClosed(k, now_ms) == k.close_time <= now_ms

RECURSIVE SelectClosed(_, _)
SelectClosed(klines, now_ms) ==
    IF klines = <<>> THEN <<>>
    ELSE LET rest == SelectClosed(Tail(klines), now_ms)
         IN  IF IsClosed(Head(klines), now_ms) THEN <<Head(klines)>> \o rest ELSE rest

extract_closed_closes(klines, now_ms) ==
    LET kept == SelectClosed(klines, now_ms)
    IN  <<[i \in DOMAIN kept |-> kept[i].close], [i \in DOMAIN kept |-> kept[i].close_time]>>

(* ------------------------------ alerts -------------------------------- *)

\* The outcome of one channel's HTTP call: delivered, a non-200 response
\* (logged), or a transport error (requests raises).
ChanOutcomes == {"ok", "http_error", "raise"}
\* The outcomes of send_telegram and send_whatsapp in one send_alert call:
\* send_whatsapp is not called when send_telegram raises.
SendOutcomes ==
    {o \in ChanOutcomes \X (ChanOutcomes \cup {"not_called"}) :
        (o[1] = "raise") <=> (o[2] = "not_called")}
NoSend == [called |-> FALSE, raised |-> FALSE, attempted |-> {}, delivered |-> {}]

\* send_alert(message) with out = <<telegram outcome, whatsapp outcome>>: the
\* channels whose request was made, those that delivered, and whether an
\* exception left the call.
send_alert(out) ==
    IF out[1] = "raise"
    THEN [called |-> TRUE, raised |-> TRUE, attempted |-> {"telegram"}, delivered |-> {}]
    ELSE [called |-> TRUE, raised |-> out[2] = "raise",
          attempted |-> {"telegram", "whatsapp"},
          delivered |-> (IF out[1] = "ok" THEN {"telegram"} ELSE {})
                        \cup (IF out[2] = "ok" THEN {"whatsapp"} ELSE {})]

(* ---------------------------- core logic ------------------------------ *)

\* dict.get(key): None for an absent key.
Get(d, key) == IF key \in DOMAIN d THEN d[key] ELSE None
\* d[key] = value
Put(d, key, value) == (key :> value) @@ d
\* state.setdefault(symbol, {}): the mapping after the call.
setdefault(st, symbol) == IF symbol \in DOMAIN st THEN st ELSE (symbol :> EmptyDict) @@ st

\* A variant of CrossOversold that compares the previous RSI with >=.
CrossOversold_NonStrict(previous_rsi, current_rsi, oversold) ==
    RLe(FromInt(oversold), previous_rsi) /\ RLe(current_rsi, FromInt(oversold))

\* previous_rsi > oversold and current_rsi <= oversold
CrossOversold(previous_rsi, current_rsi, oversold) ==
    RLt(FromInt(oversold), previous_rsi) /\ RLe(current_rsi, FromInt(oversold))

\* A variant of CrossOverbought that joins its comparisons with "or".
CrossOverbought_Or(previous_rsi, current_rsi, overbought) ==
    RLt(previous_rsi, FromInt(overbought)) \/ RLe(FromInt(overbought), current_rsi)

\* previous_rsi < overbought and current_rsi >= overbought
CrossOverbought(previous_rsi, current_rsi, overbought) ==
    RLt(previous_rsi, FromInt(overbought)) /\ RLe(FromInt(overbought), current_rsi)

\* A variant of OverboughtField that shares the oversold field.
OverboughtField_Shared == "last_oversold"

\* The dedup field of each direction.
OversoldField == "last_oversold"
OverboughtField == "last_overbought"

\* A variant of NotYetOversold that never finds the candle alerted.
NotYetOversold_Always(symbol_state, last_close_time) == TRUE

\* symbol_state.get("last_oversold") != last_close_time
NotYetOversold(symbol_state, last_close_time) ==
    Get(symbol_state, OversoldField) # last_close_time

\* symbol_state.get("last_overbought") != last_close_time
NotYetOverbought(symbol_state, last_close_time) ==
    Get(symbol_state, OverboughtField) # last_close_time

\* A variant of FieldWritten that records the alert although send_alert raised.
FieldWritten_Always(fire, r) == fire

\* symbol_state[field] = last_close_time follows send_alert(msg) in the same
\* block: it is executed when the block is entered and send_alert returns.
FieldWritten(fire, r) == fire /\ ~r.raised

\* A variant of WindowTooShort that asks for period + 1 closes only.
WindowTooShort_OneLess(closes, period) == Len(closes) < period + 1

\* len(closes) < period + 2: return
WindowTooShort(closes, period) == Len(closes) < period + 2

\* check_symbol after the fetch.  outs[d] is the outcome of the send_alert
\* call for direction d, should it be made.  The result: the mapping as the
\* call leaves it, the directions send_alert was called for (in order), the
\* channels that were tried for and that delivered each alert, and whether an exception left the call
\* (a send_alert that raises, or the TypeError of comparing None with a
\* threshold).
check_symbol(symbol, klines, now_ms, period, oversold, overbought, st, outs) ==
    LET ex == extract_closed_closes(klines, now_ms)
        closes == ex[1]
        times == ex[2]
    IN  IF WindowTooShort(closes, period)
        THEN [evaluated |-> FALSE, state |-> st, alerts |-> <<>>, raised |-> FALSE,
              delivered |-> [d \in Dirs |-> {}],
              channels |-> [d \in Dirs |-> {}],
              closes |-> closes, times |-> times]
        ELSE
          LET current_rsi == compute_rsi(closes, period)
              previous_rsi == compute_rsi(SubSeq(closes, 1, Len(closes) - 1), period)
              last_close_time == times[Len(times)]
              st0 == setdefault(st, symbol)
              type_error == previous_rsi = Undefined \/ current_rsi = Undefined
              fire1 == /\ ~type_error
                       /\ CrossOversold(previous_rsi, current_rsi, oversold)
                       /\ NotYetOversold(st0[symbol], last_close_time)
              r1 == IF fire1 THEN send_alert(outs["OVERSOLD"]) ELSE NoSend
              st1 == IF FieldWritten(fire1, r1)
                     THEN Put(st0, symbol, Put(st0[symbol], OversoldField, last_close_time))
                     ELSE st0
              fire2 == /\ ~type_error
                       /\ ~r1.raised
                       /\ CrossOverbought(previous_rsi, current_rsi, overbought)
                       /\ NotYetOverbought(st1[symbol], last_close_time)
              r2 == IF fire2 THEN send_alert(outs["OVERBOUGHT"]) ELSE NoSend
              st2 == IF FieldWritten(fire2, r2)
                     THEN Put(st1, symbol, Put(st1[symbol], OverboughtField, last_close_time))
                     ELSE st1
          IN  [evaluated |-> TRUE, state |-> st2,
               alerts |-> (IF fire1 THEN <<"OVERSOLD">> ELSE <<>>)
                          \o (IF fire2 THEN <<"OVERBOUGHT">> ELSE <<>>),
               raised |-> type_error \/ r1.raised \/ r2.raised,
               delivered |-> [d \in Dirs |-> IF d = "OVERSOLD" THEN r1.delivered
                                             ELSE r2.delivered],
               channels |-> [d \in Dirs |-> IF d = "OVERSOLD" THEN r1.attempted
                                            ELSE r2.attempted],
               closes |-> closes, times |-> times,
               previous_rsi |-> previous_rsi, current_rsi |-> current_rsi,
               last_close_time |-> last_close_time]

(* ------------------------------ main ---------------------------------- *)

\* A variant of AfterCycle without the break.
AfterCycle_NoBreak(lp) == "sleep"

\* A variant of ExceptHandler that lets the exception end main().
ExceptHandler_Propagates(lp) == "done"

\* "if not loop: break", else time.sleep(delay): where main() goes when a
\* cycle is over.
AfterCycle(lp) == IF lp THEN "sleep" ELSE "done"

\* "except Exception as e: logging.error(...)": the exception is logged and
\* main() goes on after the try statement.
ExceptHandler(lp) == AfterCycle(lp)

\* Both channels answer 200 to every alert.
AllOk == [d \in Dirs |-> <<"ok", "ok">>]

\* The outcomes of the send_alert calls of an evaluation that, with AllOk,
\* calls send_alert for the directions in alerts: none to choose when no alert
\* is sent.  The channels behave the same for both directions under
\* oversold < overbought, where an evaluation makes one call at most.
OutcomeChoices(alerts) ==
    IF alerts = <<>> THEN {AllOk}
    ELSE {outs \in [Dirs -> SendOutcomes] :
            cfg[1] < cfg[2] => outs["OVERBOUGHT"] = outs["OVERSOLD"]}

\* load_state and save_state are not called on their own.
StoreIdle ==
    /\ store_file = MissingFile
    /\ store_arg = EmptyDict
    /\ store_last = "none"
    /\ store_ret = NotCalled

\* compute_rsi and check_symbol are not called on their own.
FnIdle ==
    /\ arg_closes = <<>>
    /\ arg_period = Period
    /\ arg_cfg = <<0, 0>>
    /\ ret = NotCalled

Init ==
    /\ StoreIdle
    /\ FnIdle
    /\ now = StartTime
    /\ market \in [SymbolSet -> InitHistories]
    /\ cfg \in Thresholds
    /\ pc = "stopped"
    /\ loop = FALSE
    /\ idx = 1
    /\ state = EmptyDict
    /\ file = MissingFile
    /\ sent = {}
    /\ resent = {}
    /\ ev = NoEval
    /\ cycles = 0
    /\ saves = 0
    /\ attempted = {}
    /\ failed = FALSE

\* The process is started: main(loop) resolves the configuration, loads the
\* state and enters the first cycle.
Start ==
    /\ pc \in {"stopped", "done"}
    /\ \E lp \in BOOLEAN : loop' = lp
    /\ state' = load_state(file)
    /\ pc' = "cycle"
    /\ idx' = 1
    /\ cycles' = 1
    /\ saves' = 0
    /\ attempted' = {}
    /\ failed' = FALSE
    /\ ev' = NoEval
    /\ UNCHANGED <<now, market, cfg, file, sent, resent>>
    /\ UNCHANGED <<store_vars, fn_vars>>

\* The alert history that still matters at clock t.
Recent(keys, t) == {k \in keys : k[3] >= t}

\* A new candle closes for every symbol while main() sleeps or the process is
\* not running.  (Within a cycle the clock advances in CheckSymbol.)
Tick ==
    /\ pc \in {"sleep", "stopped", "done"}
    /\ now < MaxTime
    /\ now' = now + 1
    /\ \E fin \in [SymbolSet -> Prices] :
         market' = [s \in SymbolSet |-> Append(market[s], fin[s])]
    /\ sent' = Recent(sent, now')
    /\ resent' = Recent(resent, now')
    /\ ev' = NoEval
    /\ UNCHANGED <<cfg, pc, loop, idx, state, file, cycles, saves, attempted, failed>>
    /\ UNCHANGED <<store_vars, fn_vars>>

\* One iteration of "for symbol in symbols": check_symbol(symbol, ...).  The
\* fetch raises or returns; the clock may pass a candle close between the
\* fetch and the extraction (dt = 1), and then the candle that was in progress
\* at the fetch gets its final price.
CheckSymbol ==
    /\ pc = "cycle"
    /\ idx <= Len(Symbols)
    /\ \E fetch \in {"ok", "raise"}, dt \in 0..1, symbol \in {Symbols[idx]} :
         /\ now + dt <= MaxTime
         /\ attempted' = attempted \cup {symbol}
         /\ IF fetch = "raise"
            THEN /\ failed' = TRUE
                 /\ pc' = ExceptHandler(loop)
                 /\ ev' = NoEval
                 /\ sent' = Recent(sent, now + dt)
                 /\ resent' = Recent(resent, now + dt)
                 /\ UNCHANGED <<idx, state>>
            ELSE \E p \in Prices :
                 \E klines \in {fetch_klines(market[symbol], now, p)} :
                 \E r0 \in {check_symbol(symbol, klines, now + dt, Period,
                                         cfg[1], cfg[2], state, AllOk)} :
                 \E outs \in OutcomeChoices(r0.alerts) :
                 \E r \in {IF outs = AllOk THEN r0
                            ELSE check_symbol(symbol, klines, now + dt, Period,
                                              cfg[1], cfg[2], state, outs)} :
                 \E keys \in {IF r.evaluated
                              THEN {<<symbol, d, r.last_close_time>> :
                                      d \in {x \in Dirs : r.delivered[x] # {}}}
                              ELSE {}} :
                       /\ state' = r.state
                       /\ sent' = Recent(sent, now + dt) \cup keys
                       /\ resent' = Recent(resent, now + dt) \cup (sent \cap keys)
                       /\ ev' = [kind |-> "eval", symbol |-> symbol, now_ms |-> now + dt,
                                 before |-> state, r |-> Outcome(r)]
                       /\ failed' = r.raised
                       /\ IF r.raised
                          THEN pc' = ExceptHandler(loop) /\ idx' = idx
                          ELSE /\ idx' = idx + 1
                               /\ pc' = IF idx = Len(Symbols) THEN "save" ELSE "cycle"
         /\ IF dt = 0
            THEN UNCHANGED <<now, market>>
            ELSE /\ now' = now + 1
                 /\ \E fin \in [SymbolSet -> Prices] :
                      market' = [s \in SymbolSet |-> Append(market[s], fin[s])]
    /\ UNCHANGED <<cfg, loop, file, cycles, saves>>
    /\ UNCHANGED <<store_vars, fn_vars>>

\* save_state(state) at the end of the try block.
SaveState ==
    /\ pc = "save"
    /\ \E outcome \in SaveOutcomes :
         /\ file' = save_state(state, file, outcome)
         /\ saves' = saves + 1
         /\ IF outcome = "crash"
            THEN /\ pc' = "stopped"
                 /\ state' = EmptyDict
                 /\ failed' = failed
            ELSE /\ pc' = IF outcome = "ok" THEN AfterCycle(loop) ELSE ExceptHandler(loop)
                 /\ state' = state
                 /\ failed' = (outcome # "ok")
    /\ ev' = NoEval
    /\ UNCHANGED <<now, market, cfg, loop, idx, sent, resent, cycles, attempted>>
    /\ UNCHANGED <<store_vars, fn_vars>>

\* time.sleep(delay) returns and the next cycle begins.
Sleep ==
    /\ pc = "sleep"
    /\ pc' = "cycle"
    /\ idx' = 1
    /\ cycles' = IF cycles < MaxCycles THEN cycles + 1 ELSE cycles
    /\ saves' = 0
    /\ attempted' = {}
    /\ failed' = FALSE
    /\ ev' = NoEval
    /\ UNCHANGED <<now, market, cfg, loop, state, file, sent, resent>>
    /\ UNCHANGED <<store_vars, fn_vars>>

\* The process is terminated from outside; its memory is gone.
Kill ==
    /\ pc \in {"cycle", "save", "sleep"}
    /\ pc' = "stopped"
    /\ state' = EmptyDict
    /\ idx' = 1
    /\ ev' = NoEval
    /\ UNCHANGED <<now, market, cfg, loop, file, sent, resent, cycles, saves,
                   attempted, failed>>
    /\ UNCHANGED <<store_vars, fn_vars>>

Next == Start \/ Tick \/ CheckSymbol \/ SaveState \/ Sleep \/ Kill

Spec == Init /\ [][Next]_vars

(* ------------------ the state store called on its own ------------------ *)

\* The close times of the stored mappings: one of one digit, one of more.
MaxStamp == 12
Stamps == {1, MaxStamp}

\* The dedup objects: each field absent or a close time.
DedupObjects ==
    {[fld \in fs |-> o[fld]] :
        fs \in SUBSET {"last_oversold", "last_overbought"},
        o \in [{"last_oversold", "last_overbought"} -> Stamps]}

\* The mappings from symbols to dedup objects.
Mappings == UNION {[ss -> DedupObjects] : ss \in SUBSET SymbolSet}

\* What STATE_FILE may be when the process starts: absent, unreadable, not
\* JSON, JSON that is no object, or a mapping an earlier run saved.
FileConditions ==
    {MissingFile, UnreadableFile, CorruptFile, JsonFile(JsonArray), JsonFile(JsonNull)}
        \cup {JsonFile(json_dump(m)) : m \in {EmptyDict, [s \in SymbolSet |-> EmptyDict]}}

\* The main loop does not run.
MainIdle ==
    /\ now = StartTime
    /\ market = [s \in SymbolSet |-> <<>>]
    /\ cfg = <<0, 0>>
    /\ pc = "stopped"
    /\ loop = FALSE
    /\ idx = 1
    /\ state = EmptyDict
    /\ file = MissingFile
    /\ sent = {}
    /\ resent = {}
    /\ ev = NoEval
    /\ cycles = 0
    /\ saves = 0
    /\ attempted = {}
    /\ failed = FALSE

StoreInit ==
    /\ MainIdle
    /\ FnIdle
    /\ store_file \in FileConditions
    /\ store_arg \in Mappings
    /\ store_last = "none"
    /\ store_ret = NotCalled

\* save_state(store_arg)
StoreSave ==
    /\ store_last = "none"
    /\ \E outcome \in (IF store_file.kind = "unreadable" THEN {"open_raise"}
                        ELSE SaveOutcomes) :
         /\ store_file' = save_state(store_arg, store_file, outcome)
         /\ store_last' = outcome
    /\ store_ret' = NotCalled
    /\ UNCHANGED <<store_arg, main_vars, fn_vars>>

\* load_state()
StoreLoad ==
    /\ store_ret = NotCalled
    /\ store_ret' = [kind |-> "return", value |-> load_state(store_file)]
    /\ UNCHANGED <<store_file, store_arg, store_last, main_vars, fn_vars>>

StoreNext == StoreSave \/ StoreLoad

StoreSpec == StoreInit /\ [][StoreNext]_vars

(* ------------- compute_rsi and check_symbol called on their own -------- *)

\* The longest sequence of closes and the largest period of these calls.
MaxLen == 5
MaxRsiPeriod == 3

\* The sequences of closes: every length from 0, every price.
CloseSeqs == UNION {[1..n -> Prices] : n \in 0..MaxLen}

\* RSI_OVERSOLD and RSI_OVERBOUGHT, in either order and equal.
FnThresholds == {25, 50, 75} \X {25, 50, 75}

FnInit ==
    /\ MainIdle
    /\ StoreIdle
    /\ arg_closes \in CloseSeqs
    /\ arg_period \in 1..MaxRsiPeriod
    /\ arg_cfg \in FnThresholds
    /\ ret = NotCalled

\* compute_rsi(arg_closes, arg_period)
CallComputeRsi ==
    /\ ret = NotCalled
    /\ ret' = [kind |-> "rsi", value |-> compute_rsi(arg_closes, arg_period)]
    /\ UNCHANGED <<arg_closes, arg_period, arg_cfg, main_vars, store_vars>>

\* check_symbol for a symbol without dedup entry whose candles, all closed,
\* have the closes arg_closes; the channels deliver.
CallCheckSymbol ==
    /\ ret = NotCalled
    /\ \E klines \in {[i \in DOMAIN arg_closes |->
                          [close_time |-> i, close |-> arg_closes[i]]]} :
       \E r \in {check_symbol(Symbols[1], klines, Len(arg_closes), arg_period,
                              arg_cfg[1], arg_cfg[2], EmptyDict, AllOk)} :
           ret' = [kind |-> "check", evaluated |-> r.evaluated, alerts |-> r.alerts,
                   raised |-> r.raised]
    /\ UNCHANGED <<arg_closes, arg_period, arg_cfg, main_vars, store_vars>>

FnNext == CallComputeRsi \/ CallCheckSymbol

FnSpec == FnInit /\ [][FnNext]_vars

(* ------------------------------ claims -------------------------------- *)

\* The cycle of main() is over: main() sleeps or has returned.
CycleOver == pc \in {"sleep", "done"}

\* The last step was a check_symbol call that got its candles.
Evaluated == ev.kind = "eval"

\* The directions send_alert was called for in the last evaluation.
EvAlerts == {ev.r.alerts[i] : i \in DOMAIN ev.r.alerts}

\* A dedup field of a symbol in a mapping (None when the entry or the field
\* is absent).
FieldOf(st, symbol, field) ==
    IF symbol \in DOMAIN st /\ field \in DOMAIN st[symbol] THEN st[symbol][field] ELSE None

\* rational r compared with the integer n
Above(r, n) == r[1] > n * r[2]
Below(r, n) == r[1] < n * r[2]

\* C1: for every symbol, direction and candle close time, at most one alert
\* is sent, across cycles, failures and restarts of the process.
C1_NeverReAlerted == resent = {}

\* C2: a cycle in which a symbol raised has still attempted every configured
\* symbol and has called save_state.
C2_FailureIsolated ==
    (CycleOver /\ failed) => (attempted = SymbolSet /\ saves = 1)

\* The candles of the last evaluation, as a fetch would return them again.
EvKlines == [i \in DOMAIN ev.r.closes |->
               [close_time |-> ev.r.times[i], close |-> ev.r.closes[i]]]

\* C3: once check_symbol has alerted a direction at the last close time and
\* returned normally, evaluating the same symbol again with the same closes and
\* times and the resulting dedup state alerts that direction no more and
\* leaves the dedup state as it is, whatever the channels would do.
C3_Idempotent ==
    (Evaluated /\ ev.r.evaluated /\ ~ev.r.raised /\ EvAlerts # {}) =>
        \A out \in SendOutcomes :
            LET again == check_symbol(ev.symbol, EvKlines, ev.now_ms, Period,
                                      cfg[1], cfg[2], state, [d \in Dirs |-> out])
            IN  /\ again.evaluated
                /\ \A i \in DOMAIN again.alerts : again.alerts[i] \notin EvAlerts
                /\ again.state = state

\* C3, witness: an evaluation alerted and returned normally.
C3_Witness ==
    Evaluated /\ ev.r.evaluated /\ ~ev.r.raised /\ "OVERSOLD" \in EvAlerts

\* C4: with a sufficient window an OVERSOLD alert is emitted if and only if
\* previous RSI > oversold and current RSI <= oversold and the symbol's
\* last_oversold field is not the last close time.
C4_OversoldIff ==
    (Evaluated /\ ev.r.evaluated) =>
        ("OVERSOLD" \in EvAlerts <=>
            /\ Above(ev.r.previous_rsi, cfg[1])
            /\ ~Above(ev.r.current_rsi, cfg[1])
            /\ FieldOf(ev.before, ev.symbol, "last_oversold") # ev.r.last_close_time)

\* C4, witness: an evaluation whose previous RSI is exactly the oversold
\* threshold and whose current RSI is at or below it: no alert.
C4_Witness ==
    /\ Evaluated /\ ev.r.evaluated
    /\ ~Above(ev.r.previous_rsi, cfg[1]) /\ ~Below(ev.r.previous_rsi, cfg[1])
    /\ ~Above(ev.r.current_rsi, cfg[1])
    /\ EvAlerts = {}

\* C5: an evaluation that alerts only OVERBOUGHT does so on previous RSI <
\* overbought, current RSI >= overbought and last_overbought # last close
\* time, emits one event and leaves last_oversold alone; one that alerts only
\* OVERSOLD leaves last_overbought alone; and the overbought crossing that is
\* not yet alerted does alert.
C5_OverboughtSymmetric ==
    (Evaluated /\ ev.r.evaluated) =>
        LET before_os == FieldOf(ev.before, ev.symbol, "last_oversold")
            before_ob == FieldOf(ev.before, ev.symbol, "last_overbought")
            cross_ob == /\ Below(ev.r.previous_rsi, cfg[2])
                        /\ ~Below(ev.r.current_rsi, cfg[2])
                        /\ before_ob # ev.r.last_close_time
        IN  /\ ("OVERBOUGHT" \in EvAlerts) => cross_ob
            /\ (ev.r.alerts = <<"OVERBOUGHT">>) =>
                  FieldOf(state, ev.symbol, "last_oversold") = before_os
            /\ (ev.r.alerts = <<"OVERSOLD">>) =>
                  FieldOf(state, ev.symbol, "last_overbought") = before_ob
            /\ (cross_ob /\ "OVERSOLD" \notin EvAlerts) => "OVERBOUGHT" \in EvAlerts

\* C5, witness: only OVERBOUGHT was alerted, with the current RSI exactly at
\* the threshold, and the alert was recorded.
C5_Witness ==
    /\ Evaluated /\ ev.r.evaluated
    /\ ev.r.alerts = <<"OVERBOUGHT">>
    /\ ~Above(ev.r.current_rsi, cfg[2])
    /\ FieldOf(state, ev.symbol, "last_overbought") = ev.r.last_close_time

\* The dedup field of a direction.
FieldName(d) == IF d = "OVERSOLD" THEN "last_oversold" ELSE "last_overbought"

\* C6: a dedup field changes exactly when an alert of its direction is
\* emitted for the symbol, and then to the close time of the last closed
\* candle; no entry and no set field is ever deleted.
C6_MutatedIffAlerted ==
    Evaluated =>
        /\ \A d \in Dirs :
             (FieldOf(state, ev.symbol, FieldName(d)) # FieldOf(ev.before, ev.symbol, FieldName(d)))
               <=> d \in EvAlerts
        /\ \A d \in EvAlerts :
             FieldOf(state, ev.symbol, FieldName(d)) = ev.r.last_close_time
        /\ \A s \in DOMAIN ev.before :
             /\ s \in DOMAIN state
             /\ DOMAIN ev.before[s] \subseteq DOMAIN state[s]

\* C7: with fewer than period + 2 closed candles check_symbol emits no alert,
\* raises nothing and leaves the state mapping as it was.
C7_ShortWindowSkips ==
    (Evaluated /\ Len(ev.r.closes) < Period + 2) =>
        /\ ev.r.alerts = <<>>
        /\ ~ev.r.raised
        /\ ~failed
        /\ state = ev.before

\* C7, witness: check_symbol got fewer than period + 2 closed candles for a
\* symbol that has no entry yet.
C7_Witness ==
    /\ Evaluated
    /\ Len(ev.r.closes) < Period + 2
    /\ Len(ev.r.closes) > 0
    /\ ev.symbol \notin DOMAIN ev.before

\* C8: in every cycle save_state is called exactly once, after all symbols.
C8_SavedOncePerCycle ==
    /\ CycleOver => saves = 1
    /\ saves > 0 => attempted = SymbolSet

\* C9: in continuous mode main() never returns: a step of a cycle that raises
\* is followed by the sleep, and the sleep by the next cycle.
C9_LoopSurvives ==
    /\ [](pc = "done" => ~loop)
    /\ [](pc = "sleep" => ENABLED Sleep)
    /\ [][(loop /\ pc \in {"cycle", "save"} /\ failed') => pc' = "sleep"]_vars
    /\ [][(pc = "sleep" /\ pc' \notin {"sleep", "stopped"}) => (pc' = "cycle" /\ idx' = 1)]_vars

\* C9, witness: in continuous mode a cycle raised and main() sleeps until the
\* next cycle.
C9_Witness == loop /\ pc = "sleep" /\ failed

\* How far main() is in its cycle: the symbols, then the save, then the end.
Progress ==
    IF pc = "cycle" THEN idx ELSE IF pc = "save" THEN Len(Symbols) + 1 ELSE Len(Symbols) + 2

\* C10: under --once main() runs one cycle, never sleeps, and returns when
\* the cycle is over, whether it raised or not: while it is in the loop over
\* the symbols it has a symbol to check, every step of it takes it further
\* through the cycle, and the cycle is left for the return only.
C10_OnceRunsOneCycle ==
    /\ []((pc # "stopped" /\ ~loop) => (cycles = 1 /\ pc # "sleep"))
    /\ []((~loop /\ pc = "cycle") => idx \in DOMAIN Symbols)
    /\ [][(~loop /\ pc \in {"cycle", "save"} /\ pc' # "stopped") => Progress' > Progress]_vars
    /\ [][(~loop /\ pc \in {"cycle", "save"} /\ pc' \notin {"cycle", "save", "stopped"})
            => pc' = "done"]_vars

\* C10, witness: under --once the cycle raised and main() has returned.
C10_Witness == pc = "done" /\ ~loop /\ failed /\ cycles = 1

\* C11: a channel that fails in send_alert does not keep the other channel
\* from being tried and no exception leaves check_symbol for main()'s cycle:
\* for every alert both send_telegram and send_whatsapp are called and
\* check_symbol returns normally.
C11_ChannelsIndependent ==
    Evaluated =>
        /\ \A d \in EvAlerts : ev.r.channels[d] = {"telegram", "whatsapp"}
        /\ ~ev.r.raised
        /\ ~failed

\* C12: whatever happens in save_state, a crash included, the snapshot the
\* next load_state reads is the complete previous one or the complete new one.
C12_SaveAtomic ==
    [][load_state(file') \in {load_state(file), state}]_vars

\* A Python value that is a dict.
IsDict(v) == "py" \notin DOMAIN v

\* C13: load_state returns, and returns a mapping, whatever STATE_FILE is:
\* the empty mapping when the file is missing, unreadable or not JSON.
C13_LoadFailsSoft ==
    (store_ret # NotCalled) =>
        /\ store_ret.kind = "return"
        /\ IsDict(store_ret.value)
        /\ store_file.kind \in {"missing", "unreadable", "corrupt"}
              => store_ret.value = EmptyDict

\* C14: load_state after a save_state(m) that completed returns a mapping
\* equal to m.
C14_RoundTrip ==
    (store_last = "ok" /\ store_ret # NotCalled) =>
        (store_ret.kind = "return" /\ store_ret.value = store_arg)

\* C14, witness: a mapping with both symbols, an absent field and a close time
\* of several digits was saved and loaded again.
C14_Witness ==
    /\ store_last = "ok"
    /\ store_ret # NotCalled
    /\ DOMAIN store_arg = SymbolSet
    /\ \E s \in SymbolSet :
         /\ DOMAIN store_arg[s] = {"last_oversold"}
         /\ store_arg[s]["last_oversold"] = MaxStamp

\* C15: every close price check_symbol hands to compute_rsi, the last one
\* (whose close time is used for alerting and dedup) included, is the final
\* close price of a candle whose close time is <= the clock at extraction: a
\* candle the data source returned while it was in progress is not used.
C15_OnlyClosedCandles ==
    Evaluated =>
        \A i \in DOMAIN ev.r.times :
            /\ ev.r.times[i] <= ev.now_ms
            /\ ev.r.closes[i] = market[ev.symbol][ev.r.times[i]]

\* C16: compute_rsi returns None for fewer than period + 1 closes, the empty
\* sequence included, and a number for period + 1 closes or more.
C16_UndefinedIffShort ==
    (ret.kind = "rsi") =>
        /\ Len(arg_closes) < arg_period + 1 => ret.value = Undefined
        /\ Len(arg_closes) >= arg_period + 1 => ret.value[2] > 0

\* C16, witness: compute_rsi was called with exactly period closes.
C16_Witness ==
    ret.kind = "rsi" /\ Len(arg_closes) = arg_period /\ ret.value = Undefined

\* The deltas of the closes compute_rsi was called with.
ArgDeltas == [i \in 1..(Len(arg_closes) - 1) |-> arg_closes[i + 1] - arg_closes[i]]
\* compute_rsi was called with period + 1 closes or more.
RsiDefined == ret.kind = "rsi" /\ Len(arg_closes) >= arg_period + 1
NoLoss == \A i \in DOMAIN ArgDeltas : ArgDeltas[i] >= 0
OnlyLoss ==
    /\ \A i \in DOMAIN ArgDeltas : ArgDeltas[i] <= 0
    /\ \E i \in DOMAIN ArgDeltas : ArgDeltas[i] < 0

\* C17 as claimed: for period + 1 closes or more compute_rsi returns a value
\* in [0, 100], exactly 100 when all deltas are >= 0, and a value at or next to
\* 0 (below 1) when all deltas are <= 0 and one of them is < 0.
C17_RangeAndExtremes ==
    RsiDefined =>
        /\ ~Below(ret.value, 0) /\ ~Above(ret.value, 100)
        /\ NoLoss => ret.value = FromInt(100)
        /\ OnlyLoss => Below(ret.value, 1)

\* C17 as amended: for period + 1 closes or more compute_rsi returns a value
\* in [0, 100]; exactly 100 when all deltas are >= 0; when all deltas are <= 0
\* and one of them is < 0, exactly 0 if the period is at least 2 or the last
\* delta is < 0, and exactly 100 if the period is 1 and the last delta is 0
\* (the smoothed average loss is then zero).
C17_RangeAndExtremes_Amended ==
    RsiDefined =>
        /\ ~Below(ret.value, 0) /\ ~Above(ret.value, 100)
        /\ NoLoss => ret.value = FromInt(100)
        /\ (OnlyLoss /\ (arg_period >= 2 \/ ArgDeltas[Len(ArgDeltas)] < 0))
              => ret.value = FromInt(0)
        /\ (OnlyLoss /\ arg_period = 1 /\ ArgDeltas[Len(ArgDeltas)] = 0)
              => ret.value = FromInt(100)

\* C17, witness: compute_rsi was called with period 1 and closes that fall
\* and then stay: the result is 100.
C17_Witness ==
    /\ RsiDefined
    /\ OnlyLoss
    /\ ArgDeltas[Len(ArgDeltas)] = 0
    /\ arg_period = 1
    /\ ret.value = FromInt(100)

\* C18: with oversold < overbought one evaluation of check_symbol calls
\* send_alert at most once; an evaluation that calls it twice has
\* oversold >= overbought.
C18_AtMostOneAlert ==
    (ret.kind = "check") =>
        /\ arg_cfg[1] < arg_cfg[2] => Len(ret.alerts) <= 1
        /\ Len(ret.alerts) = 2 => arg_cfg[1] >= arg_cfg[2]

\* C18, witness: an evaluation with oversold < overbought alerted once.
C18_Witness ==
    /\ ret.kind = "check"
    /\ ret.evaluated
    /\ arg_cfg[1] < arg_cfg[2]
    /\ Len(ret.alerts) = 1

\* No evaluation calls send_alert twice, whatever the thresholds: both
\* crossings at once would need oversold < previous RSI < overbought and
\* overbought <= current RSI <= oversold.
NeverTwoAlerts == (ret.kind = "check") => Len(ret.alerts) <= 1

\* C19: a dedup field is written only after send_alert has returned: when
\* send_alert raises, the field of the alert's direction keeps its value and
\* the next evaluation of the same candles calls send_alert for that
\* direction again, also on the channels that had delivered the alert; when
\* send_alert returns, the field is the last close time.
C19_RetryAfterRaise ==
    (Evaluated /\ ev.r.evaluated /\ ev.r.alerts # <<>>) =>
        LET d == ev.r.alerts[Len(ev.r.alerts)]
        IN  IF ev.r.raised
            THEN /\ FieldOf(state, ev.symbol, FieldName(d))
                      = FieldOf(ev.before, ev.symbol, FieldName(d))
                 /\ \A out \in SendOutcomes :
                      LET again == check_symbol(ev.symbol, EvKlines, ev.now_ms, Period,
                                                cfg[1], cfg[2], state, [x \in Dirs |-> out])
                      IN  /\ d = again.alerts[Len(again.alerts)]
                          /\ ev.r.delivered[d] \subseteq again.channels[d]
            ELSE FieldOf(state, ev.symbol, FieldName(d)) = ev.r.last_close_time

\* C19, witness: send_telegram delivered an alert and send_whatsapp raised.
C19_Witness ==
    /\ Evaluated /\ ev.r.evaluated /\ ev.r.raised
    /\ \E d \in EvAlerts : ev.r.delivered[d] = {"telegram"}

\* Every entry and every field of the mapping old is in the mapping new.
Keeps(old, new) ==
    \A s \in DOMAIN old : s \in DOMAIN new /\ DOMAIN old[s] \subseteq DOMAIN new[s]

\* C20: while main() runs, the mapping in memory loses no entry and no field,
\* in a cycle that raises as in one that does not, and is handed unchanged to
\* the next cycle; a save_state that completes leaves a snapshot equal to the
\* mapping in memory.
C20_SaveCatchesUp ==
    /\ [][(pc \in {"cycle", "save", "sleep"} /\ pc' # "stopped") => Keeps(state, state')]_vars
    /\ [][(pc \in {"save", "sleep"} /\ pc' # "stopped") => state' = state]_vars
    /\ [][(saves' = saves + 1 /\ ~failed' /\ pc' # "stopped")
            => load_state(file') = state']_vars

\* C20, witness: a cycle raised after a dedup field was set: main() sleeps
\* with the field in memory and a snapshot that does not have it.
C20_Witness ==
    /\ loop /\ pc = "sleep" /\ failed
    /\ load_state(file) # state
    /\ \E s \in DOMAIN state : state[s] # EmptyDict

====
